---- MODULE Spec2Model ----
(***************************************************************************)
(* A model of the TSP environment (src/env.py: Env_tsp) and of the pointer *)
(* network decoder (src/actor.py: PtrNet1).                                *)
(*                                                                         *)
(* Conventions.  City indices are 0-based as in the source.  A coordinate  *)
(* tensor is a function from 0..N-1 to points <<x, y>>; a Python list or a *)
(* tour tensor is a sequence whose k-th element is the source's element    *)
(* k-1.  Real numbers are fixed point: a distance d is the integer         *)
(* floor(d * Scale).  A log-probability is a pair <<w, f>> standing for    *)
(* w - f / 1000.  cfg.batch and cfg.city_t are the shape of the tensors.   *)
(***************************************************************************)
EXTENDS Integers, Sequences, FiniteSets, TLC

VARIABLES
    pc,             \* position of the operation in progress
    nodes,          \* get_optimal_tour: the argument nodes
    all_distances,  \* get_optimal_tour: the distance matrix
    A,              \* get_optimal_tour: the table of the current layer
    m,              \* get_optimal_tour: the loop variable of the layer loop
    tour,           \* get_optimal_tour: the returned tour
    err,            \* the exception raised, if any
    batch,          \* cfg.batch / x.size(0)
    city_t,         \* cfg.city_t / x.size(1)
    inputs,         \* (batch, city_t, 2) coordinates
    tours,          \* (batch, city_t) tours given to the evaluators / back_tours
    l_batch,        \* result of stack_l
    l_fast,         \* result of stack_l_fast
    shuffle_inputs, \* result of shuffle (or a tensor the caller supplies)
    pred_tours,     \* result of back_tours
    decode_type,    \* cfg.decode_type
    mask,           \* PtrNet1.forward: mask
    pi_list,        \* PtrNet1.forward: pi_list
    log_ps,         \* PtrNet1.forward: log_ps
    pi,             \* PtrNet1.forward: returned pi
    ll              \* PtrNet1.forward: returned ll

vars == <<pc, nodes, all_distances, A, m, tour, err, batch, city_t, inputs, tours,
          l_batch, l_fast, shuffle_inputs, pred_tours, decode_type, mask,
          pi_list, log_ps, pi, ll>>

solverVars == <<nodes, all_distances, A, m, tour>>
batchVars == <<batch, city_t, inputs, tours>>
evalVars == <<l_batch, l_fast>>
backVars == <<shuffle_inputs, pred_tours>>
decoderVars == <<decode_type, mask, pi_list, log_ps, pi, ll>>

(***************************************************************************)
(* Bounds of the model.                                                    *)
(***************************************************************************)
MaxCities == 6
MaxBatch == 2
MaxTourCities == 3
MaxCells == 4
MaxLogit == 2
Scale == 1000

\* The value of a variable that the operation in progress does not use.
NA == "NA"

NoError == [kind |-> "none", at |-> "none"]

Raised(kind, at) == [kind |-> kind, at |-> at]

(***************************************************************************)
(* Arithmetic helpers.                                                     *)
(***************************************************************************)
RECURSIVE ISqrtBetween(_, _, _)
\* The largest r in lo..hi with r * r <= n (lo * lo <= n < (hi + 1)^2).
ISqrtBetween(n, lo, hi) ==
    IF lo >= hi THEN lo
    ELSE LET mid == (lo + hi + 1) \div 2
         IN  IF mid * mid <= n THEN ISqrtBetween(n, mid, hi)
             ELSE ISqrtBetween(n, lo, mid - 1)

\* floor(sqrt(n)) for 0 <= n < 2^30.
ISqrt(n) == ISqrtBetween(n, 0, 32767)

RECURSIVE SumSeq(_)
SumSeq(s) == IF s = <<>> THEN 0 ELSE Head(s) + SumSeq(Tail(s))

\* A Python list / tensor row as a function on 0..N-1.
FromList(s) == [i \in 0 .. Len(s) - 1 |-> s[i + 1]]

\* The coordinates of the source's own example (env.py, __main__).
test_input == FromList(<< <<0, 0>>, <<1, 0>>, <<4, 0>>, <<0, -3>> >>)

\* The points instances are drawn from: those of the source's example.
GridPoints == {test_input[i] : i \in DOMAIN test_input}

\* get_2city_distance: sqrt((x2 - x1)^2 + (y2 - y1)^2), in fixed point.
get_2city_distance(n1, n2) ==
    LET x1 == n1[1]
        y1 == n1[2]
        x2 == n2[1]
        y2 == n2[2]
    IN  ISqrt(((x2 - x1) * (x2 - x1) + (y2 - y1) * (y2 - y1)) * Scale * Scale)

(***************************************************************************)
(* Env_tsp.get_optimal_tour: dynamic programming over subsets.             *)
(***************************************************************************)
RECURSIVE ListLess(_, _)
\* Python's list comparison s < t.
ListLess(s, t) ==
    IF s = <<>> THEN t # <<>>
    ELSE IF t = <<>> THEN FALSE
    ELSE IF Head(s) # Head(t) THEN Head(s) < Head(t)
    ELSE ListLess(Tail(s), Tail(t))

\* Python's tuple comparison a <= b of (distance, list) tuples.
TupleLeq(a, b) ==
    \/ a[1] < b[1]
    \/ a[1] = b[1] /\ (a[2] = b[2] \/ ListLess(a[2], b[2]))

\* Python's min over a non-empty collection of (distance, list) tuples.
PyMin(T) == CHOOSE x \in T : \A y \in T : TupleLeq(x, y)

\* itertools.combinations(range(1, cnt), m), each as a frozenset.
Combinations(cnt, k) == {C \in SUBSET (1 .. cnt - 1) : Cardinality(C) = k}

\* all_distances = [[get_2city_distance(x, y) for y in points] for x in points]
DistanceMatrix(points) ==
    [x \in DOMAIN points |-> [y \in DOMAIN points |->
        get_2city_distance(points[x], points[y])]]

\* A = {(idx, frozenset()): (dist, [idx]) for idx, dist in
\*      enumerate(all_distances[1:, 0], start=1)}
BaseTable(D) ==
    [key \in {<<idx, {}>> : idx \in DOMAIN D \ {0}} |->
        <<D[key[1]][0], <<key[1]>>>>]

\* The candidates of B[(j, R)] with the distance from j to k left out.
LayerCandidatesNoEdge(D, T, j, R) ==
    {<<T[<<k, R \ {k}>>][1], <<j>> \o T[<<k, R \ {k}>>][2]>> : k \in R}

\* (all_distances[j, k] + A[(k, R - {k})][0], [j] + A[(k, R - {k})][1]) for k in R
LayerCandidates(D, T, j, R) ==
    {<<D[j][k] + T[<<k, R \ {k}>>][1], <<j>> \o T[<<k, R \ {k}>>][2]>> : k \in R}

\* One iteration of "for m in range(2, cnt)": the table B.
LayerTable(D, T, cnt, k) ==
    [key \in UNION {{<<j, S \ {j}>> : j \in S} : S \in Combinations(cnt, k)} |->
        PyMin(LayerCandidates(D, T, key[1], key[2]))]

\* The final minimisation with min() of an empty table answering [0].
FinalResultLenient(D, T) ==
    IF DOMAIN T = {} THEN [raised |-> FALSE, res |-> <<0, <<0>>>>]
    ELSE [raised |-> FALSE,
          res |-> PyMin({<<D[0][key[1]] + T[key][1], <<0>> \o T[key][2]>> :
                         key \in DOMAIN T})]

\* res = min((all_distances[0, node] + dist, [0] + seq) for ... in A.items());
\* min() of an empty sequence raises ValueError.
FinalResult(D, T) ==
    IF DOMAIN T = {} THEN [raised |-> TRUE, res |-> <<>>]
    ELSE [raised |-> FALSE,
          res |-> PyMin({<<D[0][key[1]] + T[key][1], <<0>> \o T[key][2]>> :
                         key \in DOMAIN T})]

SolverInit ==
    /\ pc = "start"
    /\ \E n \in 0 .. MaxCities : nodes \in [0 .. n - 1 -> GridPoints]
    /\ all_distances = NA
    /\ A = NA
    /\ m = 0
    /\ tour = <<>>
    /\ err = NoError
    /\ batch = 0 /\ city_t = 0 /\ inputs = NA /\ tours = NA
    /\ l_batch = NA /\ l_fast = NA
    /\ shuffle_inputs = NA /\ pred_tours = NA
    /\ decode_type = NA /\ mask = NA /\ pi_list = NA /\ log_ps = NA
    /\ pi = NA /\ ll = NA

\* env.py 174-177: points and all_distances.
SolverDistances ==
    /\ pc = "start"
    /\ all_distances' = DistanceMatrix(nodes)
    /\ pc' = "base"
    /\ UNCHANGED <<nodes, A, m, tour, err>>
    /\ UNCHANGED <<batchVars, evalVars, backVars, decoderVars>>

\* env.py 179-185: the initial table; all_distances[1:, 0] of the 1-dimensional
\* empty array (no points) raises IndexError.
SolverBase ==
    /\ pc = "base"
    /\ IF DOMAIN nodes = {}
       THEN /\ pc' = "raised"
            /\ err' = Raised("IndexError", "base")
            /\ UNCHANGED <<A, m>>
       ELSE /\ A' = BaseTable(all_distances)
            /\ m' = 2
            /\ pc' = "layers"
            /\ UNCHANGED err
    /\ UNCHANGED <<nodes, all_distances, tour>>
    /\ UNCHANGED <<batchVars, evalVars, backVars, decoderVars>>

\* env.py 186-198: one iteration of the layer loop.
SolverLayer ==
    /\ pc = "layers"
    /\ m < Cardinality(DOMAIN all_distances)
    /\ A' = LayerTable(all_distances, A, Cardinality(DOMAIN all_distances), m)
    /\ m' = m + 1
    /\ UNCHANGED <<pc, nodes, all_distances, tour, err>>
    /\ UNCHANGED <<batchVars, evalVars, backVars, decoderVars>>

\* env.py 199-204: the final minimisation and the returned tour.
SolverFinal ==
    /\ pc = "layers"
    /\ m >= Cardinality(DOMAIN all_distances)
    /\ LET r == FinalResult(all_distances, A)
       IN  IF r.raised
           THEN /\ pc' = "raised"
                /\ err' = Raised("ValueError", "final")
                /\ UNCHANGED tour
           ELSE /\ pc' = "done"
                /\ tour' = r.res[2]
                /\ UNCHANGED err
    /\ UNCHANGED <<nodes, all_distances, A, m>>
    /\ UNCHANGED <<batchVars, evalVars, backVars, decoderVars>>

SolverNext == SolverDistances \/ SolverBase \/ SolverLayer \/ SolverFinal

SpecSolver == SolverInit /\ [][SolverNext]_vars

(***************************************************************************)
(* Env_tsp.stack_l / get_tour_distance and Env_tsp.stack_l_fast.           *)
(***************************************************************************)
\* The tours of n cities: the permutations of 0..n-1, as lists.
TourLists(n) == {[i \in 1 .. n |-> q[i - 1]] : q \in Permutations(0 .. n - 1)}

\* The (batch, city_t) shapes of the model.
Shapes ==
    {s \in (1 .. MaxBatch) \X (1 .. MaxTourCities) : s[1] * s[2] <= MaxCells}

RECURSIVE TourDistanceLoop(_, _, _, _, _)
\* The loop of get_tour_distance from iteration i on, l the sum so far:
\* l += get_2city_distance(nodes[tour[i]], nodes[tour[(i + 1) % city_t]])
TourDistanceLoop(ns, t, n, i, l) ==
    IF i >= n THEN l
    ELSE TourDistanceLoop(ns, t, n, i + 1,
             l + get_2city_distance(ns[t[i + 1]], ns[t[((i + 1) % n) + 1]]))

get_tour_distance(ns, t, n) == TourDistanceLoop(ns, t, n, 0, 0)

\* list = [get_tour_distance(inputs[i], tours[i]) for i in range(batch)]
stack_l(ins, ts, b, n) ==
    [i \in 0 .. b - 1 |-> get_tour_distance(ins[i], ts[i], n)]

\* torch.gather(input=inputs, dim=1, index=tours[:, :, None].repeat(1, 1, 2)):
\* d[i][j][c] = inputs[i][tours[i][j]][c]
GatherCities(ins, ts) ==
    [i \in DOMAIN ins |-> [j \in 0 .. Len(ts[i]) - 1 |->
        [c \in 1 .. 2 |-> ins[i][ts[i][j + 1]][c]]]]

\* (v).norm(p=2) of a 2-vector, in fixed point.
Norm2(v) == ISqrt((v[1] * v[1] + v[2] * v[2]) * Scale * Scale)

\* u - v of 2-vectors.
Sub2(u, v) == <<u[1] - v[1], u[2] - v[2]>>

\* stack_l_fast without its last-to-first term.
stack_l_fast_open(ins, ts) ==
    LET d == GatherCities(ins, ts)
    IN  [i \in DOMAIN ins |->
            LET n == Cardinality(DOMAIN d[i])
            IN  SumSeq([j \in 1 .. n - 1 |-> Norm2(Sub2(d[i][j], d[i][j - 1]))])]

\* torch.sum((d[:, 1:] - d[:, :-1]).norm(p=2, dim=2), dim=1)
\*     + (d[:, 0] - d[:, -1]).norm(p=2, dim=1)
stack_l_fast(ins, ts) ==
    LET d == GatherCities(ins, ts)
    IN  [i \in DOMAIN ins |->
            LET n == Cardinality(DOMAIN d[i])
            IN  SumSeq([j \in 1 .. n - 1 |-> Norm2(Sub2(d[i][j], d[i][j - 1]))])
                + Norm2(Sub2(d[i][0], d[i][n - 1]))]

EvalInit ==
    /\ pc = "start"
    /\ \E s \in Shapes :
         /\ batch = s[1]
         /\ city_t = s[2]
         /\ inputs \in [0 .. s[1] - 1 -> [0 .. s[2] - 1 -> GridPoints]]
         /\ tours \in [0 .. s[1] - 1 -> TourLists(s[2])]
    /\ l_batch = NA /\ l_fast = NA
    /\ nodes = NA /\ all_distances = NA /\ A = NA /\ m = 0 /\ tour = <<>>
    /\ err = NoError
    /\ shuffle_inputs = NA /\ pred_tours = NA
    /\ decode_type = NA /\ mask = NA /\ pi_list = NA /\ log_ps = NA
    /\ pi = NA /\ ll = NA

\* A call of stack_l(inputs, tours).
EvalStackL ==
    /\ pc \in {"start", "fast"}
    /\ l_batch' = stack_l(inputs, tours, batch, city_t)
    /\ pc' = IF pc = "start" THEN "slow" ELSE "done"
    /\ UNCHANGED <<l_fast, err>>
    /\ UNCHANGED <<solverVars, batchVars, backVars, decoderVars>>

\* A call of stack_l_fast(inputs, tours).
EvalStackLFast ==
    /\ pc \in {"start", "slow"}
    /\ l_fast' = stack_l_fast(inputs, tours)
    /\ pc' = IF pc = "start" THEN "fast" ELSE "done"
    /\ UNCHANGED <<l_batch, err>>
    /\ UNCHANGED <<solverVars, batchVars, backVars, decoderVars>>

EvalNext == EvalStackL \/ EvalStackLFast

SpecEval == EvalInit /\ [][EvalNext]_vars

(***************************************************************************)
(* Env_tsp.shuffle and Env_tsp.back_tours.                                 *)
(***************************************************************************)
\* The points the instances of the rectifier are drawn from.
BackPoints == {<<0, 0>>, <<1, 0>>, <<1, 1>>}

\* shuffle_inputs[i, :, :] = inputs[i, perm, :], perm = perms[i] for instance i.
\* The copy into torch.zeros(inputs.size()) keeps float32 coordinates as they
\* are (get_batch_nodes draws float32).
shuffle(ins, perms) ==
    [i \in DOMAIN ins |-> [j \in DOMAIN ins[i] |-> ins[i][perms[i][j + 1]]]]

\* torch.any in place of torch.all: one equal component is enough.
SameXYAny(a, b) == a[1] = b[1] \/ a[2] = b[2]

\* torch.all(torch.eq(xy_temp, test_inputs[i, k]))
SameXY(a, b) == a[1] = b[1] /\ a[2] = b[2]

RECURSIVE ScanCanonical(_, _, _, _)
\* "for k in range(city_t)" from k on: the list of the k appended for xy
\* (the first k that matches, then break; nothing when none matches).
ScanCanonical(xy, canon, n, k) ==
    IF k >= n THEN <<>>
    ELSE IF SameXY(xy, canon[k]) THEN <<k>>
    ELSE ScanCanonical(xy, canon, n, k + 1)

RECURSIVE BackTourLoop(_, _, _, _, _)
\* "for j in range(city_t)" from j on: what the loop appends to pred_tour.
BackTourLoop(t, shuf, canon, n, j) ==
    IF j >= n THEN <<>>
    ELSE ScanCanonical(shuf[t[j + 1]], canon, n, 0)
         \o BackTourLoop(t, shuf, canon, n, j + 1)

RECURSIVE BackBatchLoop(_, _, _, _, _, _)
\* "for i in range(batch)" from i on: what the loop appends to pred_tours
\* (pred_tour, when its length reaches city_t).
BackBatchLoop(ts, shufs, canons, b, n, i) ==
    IF i >= b THEN <<>>
    ELSE LET pred_tour == BackTourLoop(ts[i], shufs[i], canons[i], n, 0)
         IN  (IF Len(pred_tour) = n THEN <<pred_tour>> ELSE <<>>)
             \o BackBatchLoop(ts, shufs, canons, b, n, i + 1)

\* back_tours: torch.stack of an empty list raises RuntimeError.
back_tours(ts, shufs, canons, b, n) ==
    LET rows == BackBatchLoop(ts, shufs, canons, b, n, 0)
    IN  IF rows = <<>> THEN [raised |-> TRUE, tensor |-> <<>>]
        ELSE [raised |-> FALSE, tensor |-> FromList(rows)]

BackInit ==
    /\ pc = "start"
    /\ \E s \in Shapes :
         /\ batch = s[1]
         /\ city_t = s[2]
         /\ inputs \in [0 .. s[1] - 1 -> [0 .. s[2] - 1 -> BackPoints]]
    /\ tours = NA
    /\ shuffle_inputs = NA /\ pred_tours = NA
    /\ l_batch = NA /\ l_fast = NA
    /\ nodes = NA /\ all_distances = NA /\ A = NA /\ m = 0 /\ tour = <<>>
    /\ err = NoError
    /\ decode_type = NA /\ mask = NA /\ pi_list = NA /\ log_ps = NA
    /\ pi = NA /\ ll = NA

\* shuffle_inputs = env.shuffle(test_inputs), one randperm per instance.
BackShuffle ==
    /\ pc = "start"
    /\ \E perms \in [0 .. batch - 1 -> TourLists(city_t)] :
         shuffle_inputs' = shuffle(inputs, perms)
    /\ pc' = "shuffled"
    /\ UNCHANGED <<pred_tours, err>>
    /\ UNCHANGED <<solverVars, batchVars, evalVars, decoderVars>>

\* The caller passes back_tours another tensor of the same shape.
BackSupply ==
    /\ pc = "start"
    /\ shuffle_inputs' \in [0 .. batch - 1 -> [0 .. city_t - 1 -> BackPoints]]
    /\ pc' = "shuffled"
    /\ UNCHANGED <<pred_tours, err>>
    /\ UNCHANGED <<solverVars, batchVars, evalVars, decoderVars>>

\* A call of back_tours(pred_shuffle_tours, shuffle_inputs, test_inputs).
BackTours ==
    /\ pc = "shuffled"
    /\ \E ts \in [0 .. batch - 1 -> TourLists(city_t)] :
         /\ tours' = ts
         /\ LET r == back_tours(ts, shuffle_inputs, inputs, batch, city_t)
            IN  IF r.raised
                THEN /\ pc' = "raised"
                     /\ err' = Raised("RuntimeError", "stack")
                     /\ UNCHANGED pred_tours
                ELSE /\ pc' = "done"
                     /\ pred_tours' = r.tensor
                     /\ UNCHANGED err
    /\ UNCHANGED <<batch, city_t, inputs, shuffle_inputs>>
    /\ UNCHANGED <<solverVars, evalVars, decoderVars>>

BackNext == BackShuffle \/ BackSupply \/ BackTours

SpecBack == BackInit /\ [][BackNext]_vars

(***************************************************************************)
(* PtrNet1.forward: the decoding loop, Greedy / Categorical, pointer and   *)
(* get_log_likelihood.  The score pointer computes for a city before it    *)
(* subtracts the mask, Vec2 . (clip_logits * tanh(W_q2 query + W_ref2      *)
(* ref)), is the output of the embedding, the encoder, the decoder and the *)
(* glimpses under the parameters, which are arbitrary: a step draws the    *)
(* scores from LogitValues, multiples of inf.  On such scores float32      *)
(* log_softmax is exact: an entry's log-probability is (score - max)       *)
(* - ln(number of maximal entries).                                        *)
(***************************************************************************)
\* pointer(query, ref, mask, inf=1e8)
inf == 100000000

LogitValues == {k * inf : k \in 0 .. MaxLogit}

\* ln(k) in thousandths, rounded down.
LnThousandths(k) ==
    CASE k = 1 -> 0
      [] k = 2 -> 693
      [] k = 3 -> 1098
      [] k = 4 -> 1386
      [] k = 5 -> 1609
      [] OTHER -> 1791

\* u = u - inf * mask
pointer(u, msk) ==
    [i \in DOMAIN u |-> [c \in DOMAIN u[i] |-> u[i][c] - inf * msk[i][c]]]

\* The largest entry of one row.
RowMax(row) == CHOOSE x \in {row[c] : c \in DOMAIN row} :
                   \A c \in DOMAIN row : row[c] <= x

\* torch.log_softmax(logits, dim=-1): a log-probability is the pair <<w, f>>
\* that stands for w - f / 1000.
log_softmax(logits) ==
    [i \in DOMAIN logits |->
        LET row == logits[i]
            top == RowMax(row)
            k == Cardinality({c \in DOMAIN row : row[c] = top})
        IN  [c \in DOMAIN row |-> <<row[c] - top, LnThousandths(k)>>]]

\* log_p.exp() is positive: float32 exp underflows to 0 below about -104.
ExpPositive(lp) == lp[1] > -104

\* a < b for log-probabilities.
LogLess(a, b) ==
    LET dw == a[1] - b[1]
        df == a[2] - b[2]
    IN  IF dw <= -1000000 THEN TRUE
        ELSE IF dw >= 1000000 THEN FALSE
        ELSE dw * 1000 < df

\* Greedy.forward: torch.argmax(log_p, dim=1), the first maximal index.
GreedyChoices(row) ==
    {c \in DOMAIN row :
        /\ \A d \in DOMAIN row : ~ LogLess(row[c], row[d])
        /\ \A d \in DOMAIN row : d < c => LogLess(row[d], row[c])}

\* Categorical.forward: torch.multinomial(log_p.exp(), 1) draws an index of
\* positive probability.
CategoricalChoices(row) == {c \in DOMAIN row : ExpPositive(row[c])}

\* self.city_selecter(log_p): the next_node tensors the policy can return.
city_selecter(kind, log_p) ==
    {nn \in [DOMAIN log_p -> 0 .. city_t - 1] :
        \A i \in DOMAIN log_p :
            nn[i] \in (IF kind = "greedy" THEN GreedyChoices(log_p[i])
                       ELSE CategoricalChoices(log_p[i]))}

\* mask += torch.zeros((batch, city_t)).scatter_(dim=1, index=next_node, value=1)
ScatterAdd(msk, next_node) ==
    [i \in DOMAIN msk |-> [c \in DOMAIN msk[i] |->
        msk[i][c] + (IF c = next_node[i] THEN 1 ELSE 0)]]

\* torch.stack(list, dim=1): element [i][t] is list[t][i] (t from 0).
StackDim1(list, b) ==
    [i \in 0 .. b - 1 |-> [t \in 0 .. Len(list) - 1 |-> list[t + 1][i]]]

\* The sum of a list of log-probabilities.
RECURSIVE SumLog(_)
SumLog(s) ==
    IF s = <<>> THEN <<0, 0>>
    ELSE LET r == SumLog(Tail(s))
         IN  <<Head(s)[1] + r[1], Head(s)[2] + r[2]>>

\* A function on 0..n-1 as a list.
ToList(f) == [k \in 1 .. Cardinality(DOMAIN f) |-> f[k - 1]]

\* get_log_likelihood gathering along the step axis instead of the city axis.
get_log_likelihood_swapped(lp, p) ==
    [i \in DOMAIN lp |->
        SumLog(ToList([t \in DOMAIN lp[i] |-> lp[i][p[i][t]][t]]))]

\* torch.gather(input=_log_p, dim=2, index=pi[:, :, None]), then the sum over
\* the steps: ll[i] is the sum over t of _log_p[i][t][pi[i][t]].
get_log_likelihood(lp, p) ==
    [i \in DOMAIN lp |->
        SumLog(ToList([t \in DOMAIN lp[i] |-> lp[i][t][p[i][t]]]))]

DecoderInit ==
    /\ pc = "loop"
    /\ \E s \in Shapes : batch = s[1] /\ city_t = s[2]
    /\ decode_type \in {"greedy", "sampling"}
    /\ mask = [i \in 0 .. batch - 1 |-> [c \in 0 .. city_t - 1 |-> 0]]
    /\ pi_list = <<>>
    /\ log_ps = <<>>
    /\ pi = NA /\ ll = NA
    /\ inputs = NA /\ tours = NA
    /\ l_batch = NA /\ l_fast = NA
    /\ shuffle_inputs = NA /\ pred_tours = NA
    /\ nodes = NA /\ all_distances = NA /\ A = NA /\ m = 0 /\ tour = <<>>
    /\ err = NoError

\* actor.py 82-102: one iteration of "for _ in range(city_t)".
DecodeStep ==
    /\ pc = "loop"
    /\ Len(pi_list) < city_t
    /\ \E u \in [0 .. batch - 1 -> [0 .. city_t - 1 -> LogitValues]] :
         LET logits == pointer(u, mask)
             log_p == log_softmax(logits)
         IN  \E next_node \in city_selecter(decode_type, log_p) :
                 /\ pi_list' = Append(pi_list, next_node)
                 /\ log_ps' = Append(log_ps, log_p)
                 /\ mask' = ScatterAdd(mask, next_node)
    /\ UNCHANGED <<pc, err, batch, city_t, inputs, tours, decode_type, pi, ll>>
    /\ UNCHANGED <<solverVars, evalVars, backVars>>

\* actor.py 104-106: pi, ll and the return.
DecodeReturn ==
    /\ pc = "loop"
    /\ Len(pi_list) >= city_t
    /\ pi' = StackDim1(pi_list, batch)
    /\ ll' = get_log_likelihood(StackDim1(log_ps, batch),
                                StackDim1(pi_list, batch))
    /\ pc' = "done"
    /\ UNCHANGED <<err, batch, city_t, inputs, tours, decode_type, mask,
                   pi_list, log_ps>>
    /\ UNCHANGED <<solverVars, evalVars, backVars>>

DecoderNext == DecodeStep \/ DecodeReturn

SpecDecoder == DecoderInit /\ [][DecoderNext]_vars

(***************************************************************************)
(* Properties of get_optimal_tour.                                         *)
(***************************************************************************)
NumCities == Cardinality(DOMAIN nodes)

\* s is a permutation of 0..n-1.
IsPermutation(s, n) ==
    /\ Len(s) = n
    /\ \A c \in 0 .. n - 1 : \E i \in 1 .. n : s[i] = c

\* The cyclic length of the tour p (a function on 1..n) under the matrix D.
CyclicLength(D, p, n) ==
    SumSeq([i \in 1 .. n |-> D[p[i]][p[(i % n) + 1]]])

\* The least cyclic length over all permutations of 0..n-1.
MinCyclicLength(D, n) ==
    LET lens == {CyclicLength(D, [i \in 1 .. n |-> q[i - 1]], n) :
                 q \in Permutations(0 .. n - 1)}
    IN  CHOOSE x \in lens : \A y \in lens : x <= y

\* C1: for 2 <= N <= 6 the tour get_optimal_tour returns is a permutation of
\* [0,N) that begins with city 0 and whose cyclic length is the least cyclic
\* length over all permutations; for the coordinates (0,0),(1,0),(4,0),(0,-3)
\* it is [0,1,2,3] or [0,3,2,1], of length 12.
C1_OptimalTour ==
    (pc = "done" /\ NumCities >= 2) =>
        \A D \in {DistanceMatrix(nodes)} :
            /\ IsPermutation(tour, NumCities)
            /\ tour[1] = 0
            /\ CyclicLength(D, tour, NumCities) = MinCyclicLength(D, NumCities)
            /\ nodes = test_input =>
                 /\ tour \in {<<0, 1, 2, 3>>, <<0, 3, 2, 1>>}
                 /\ CyclicLength(D, tour, NumCities) = 12 * Scale

\* C1 witness: the solver has returned for the source's example.
C1_Witness ==
    /\ pc = "done"
    /\ NumCities = 4
    /\ nodes = test_input
    /\ tour = <<0, 1, 2, 3>>

C3_EvaluatorsAgree ==
    pc = "done" =>
        /\ DOMAIN l_batch = 0 .. batch - 1
        /\ DOMAIN l_fast = 0 .. batch - 1
        /\ \A i \in 0 .. batch - 1 :
             /\ l_batch[i] = l_fast[i]
             /\ \A D \in {DistanceMatrix(inputs[i])} :
                  l_fast[i] = CyclicLength(D, tours[i], city_t)

\* C3 witness: both evaluators have run on a batch of two instances with
\* different tours and different, non-zero lengths.
C3_Witness ==
    /\ pc = "done"
    /\ batch = 2
    /\ city_t = 2
    /\ tours[0] # tours[1]
    /\ l_batch[0] > 0
    /\ l_batch[1] > l_batch[0]
    /\ l_fast[1] = l_batch[1]

(***************************************************************************)
(* Properties of back_tours.                                               *)
(***************************************************************************)
\* The coordinates of instance i are pairwise distinct.
DistinctCoordinates(i) ==
    \A j, k \in 0 .. city_t - 1 : j # k => inputs[i][j] # inputs[i][k]

\* shuffle_inputs[i] is a reordering of inputs[i].
IsReordering(i) ==
    \E q \in TourLists(city_t) :
        \A j \in 0 .. city_t - 1 : shuffle_inputs[i][j] = inputs[i][q[j + 1]]

\* Some entry of instance i's shuffled tour has a coordinate that no
\* canonical coordinate of the instance equals.
HasMissingMatch(i) ==
    \E j \in 1 .. city_t : \A k \in 0 .. city_t - 1 :
        shuffle_inputs[i][tours[i][j]] # inputs[i][k]

BackReturned == pc \in {"done", "raised"}

\* C4: with pairwise distinct coordinates and shuffle_inputs a reordering of
\* test_inputs, back_tours returns one row per instance, each a permutation of
\* the canonical indices with test_inputs[i][result[i][j]] equal to
\* shuffle_inputs[i][pred_shuffle_tours[i][j]].
C4_BackToursRectifies ==
    (BackReturned /\ \A i \in 0 .. batch - 1 :
                        DistinctCoordinates(i) /\ IsReordering(i)) =>
        /\ pc = "done"
        /\ DOMAIN pred_tours = 0 .. batch - 1
        /\ \A i \in 0 .. batch - 1 :
             /\ IsPermutation(pred_tours[i], city_t)
             /\ \A j \in 1 .. city_t :
                  inputs[i][pred_tours[i][j]] = shuffle_inputs[i][tours[i][j]]

\* C4 witness: a batch of two shuffled instances of two cities, rectified to
\* tours that differ from the shuffled ones.
C4_Witness ==
    /\ pc = "done"
    /\ batch = 2
    /\ city_t = 2
    /\ \A i \in 0 .. batch - 1 : DistinctCoordinates(i) /\ IsReordering(i)
    /\ pred_tours[0] # tours[0]
    /\ pred_tours[1] = tours[1]

\* C6 as stated: an instance with duplicate coordinates makes back_tours
\* raise instead of returning.
C6_DuplicatesRaise ==
    (BackReturned /\ \E i \in 0 .. batch - 1 : ~ DistinctCoordinates(i)) =>
        pc = "raised"

\* C6: the claim's instance (0,0),(0,0),(1,1), shuffled, is answered with a
\* tour that repeats a canonical index.
C6_DuplicateScenario ==
    /\ pc = "done"
    /\ batch = 1
    /\ city_t = 3
    /\ inputs[0] = FromList(<< <<0, 0>>, <<0, 0>>, <<1, 1>> >>)
    /\ IsReordering(0)
    /\ ~ IsPermutation(pred_tours[0], city_t)

\* C7 as stated: an instance with an entry that has no equal canonical
\* coordinate makes back_tours raise.
C7_MissingRaises ==
    (BackReturned /\ \E i \in 0 .. batch - 1 : HasMissingMatch(i)) =>
        pc = "raised"

\* C7: back_tours has returned although one instance had no match; the
\* tensor has fewer rows than the batch.
C7_MissingDropped ==
    /\ pc = "done"
    /\ batch = 2
    /\ HasMissingMatch(0)
    /\ ~ HasMissingMatch(1)
    /\ DOMAIN pred_tours = {0}

(***************************************************************************)
(* Properties of PtrNet1.forward.                                          *)
(***************************************************************************)
\* The number of decoding steps taken.
StepsTaken == Len(pi_list)

\* The cities instance i has selected in the steps taken.
SelectedCities(i) == {pi_list[t][i] : t \in 1 .. StepsTaken}

\* The cities of instance i whose mask entry is visited.
VisitedCities(i) == {c \in 0 .. city_t - 1 : mask[i][c] > 0}

\* C2 as stated: for either policy and any parameters, the tour forward
\* returns for each instance is a permutation of [0,N).
C2_TourIsPermutation ==
    pc = "done" =>
        \A i \in 0 .. batch - 1 : IsPermutation(ToList(pi[i]), city_t)

\* C2: greedy decoding of two cities has returned the tour [0, 0]: the score
\* of city 0 exceeds that of city 1 by 2 * inf at both steps.
C2_RepeatedTour ==
    /\ pc = "done"
    /\ decode_type = "greedy"
    /\ batch = 1
    /\ city_t = 2
    /\ ToList(pi[0]) = <<0, 0>>
    /\ log_ps[2][0][0][1] = 0
    /\ log_ps[2][0][1][1] = -inf

\* C5: the log-likelihood forward returns for an instance is the sum, over
\* the N steps, of the log-probability that the step's own recorded
\* distribution gives the city selected at that step.
C5_LogLikelihood ==
    pc = "done" =>
        /\ Len(log_ps) = city_t
        /\ Len(pi_list) = city_t
        /\ DOMAIN ll = 0 .. batch - 1
        /\ \A i \in 0 .. batch - 1 :
             ll[i] = SumLog([t \in 1 .. city_t |-> log_ps[t][i][pi_list[t][i]]])

\* C5 witness: a sampled decode of two instances of two cities has returned,
\* the instances chose different tours, and the distributions of the two
\* steps differ.
C5_Witness ==
    /\ pc = "done"
    /\ decode_type = "sampling"
    /\ batch = 2
    /\ city_t = 2
    /\ pi[0] # pi[1]
    /\ log_ps[1][0] # log_ps[2][0]
    /\ ll[0] # ll[1]

\* C8 as stated: once a step has selected a city whose mask entry was visited
\* already, forward has aborted with an error; it neither continues nor
\* returns.
C8_RevisitAborts ==
    (\E i \in 0 .. batch - 1 : \E c \in 0 .. city_t - 1 : mask[i][c] > 1) =>
        pc = "raised"

\* C8: forward has returned a tour after a step selected a visited city.
C8_RevisitReturned ==
    /\ pc = "done"
    /\ err = NoError
    /\ \E i \in 0 .. batch - 1 : \E c \in 0 .. city_t - 1 : mask[i][c] > 1

\* C10 as stated: after t steps every mask entry has flipped at most once
\* (it is 0 or 1), the visited entries of an instance are exactly the cities
\* it selected, exactly t entries are visited, and after the N-th step every
\* entry is visited.
C10_MaskTracksTour ==
    \A i \in 0 .. batch - 1 :
        /\ \A c \in 0 .. city_t - 1 : mask[i][c] \in {0, 1}
        /\ VisitedCities(i) = SelectedCities(i)
        /\ Cardinality(VisitedCities(i)) = StepsTaken
        /\ StepsTaken <= city_t
        /\ StepsTaken = city_t => VisitedCities(i) = 0 .. city_t - 1

\* C10: all N steps are taken and a city of some instance is still unvisited.
C10_UnvisitedAtEnd ==
    /\ StepsTaken = city_t
    /\ \E i \in 0 .. batch - 1 : VisitedCities(i) # 0 .. city_t - 1

====
